---- MODULE Spec2Model ----
(***************************************************************************)
(* State-machine model of the e-commerce API in src/main.py: two document   *)
(* collections (products, orders) and the four request handlers that read   *)
(* and write them.  Every handler is cut at its awaits on the database: a   *)
(* step of the model is one database operation together with the            *)
(* synchronous Python code that runs up to the next await (or the return).  *)
(*                                                                          *)
(* Conventions                                                              *)
(*   - text is a sequence of one-character strings, <<"A", "b">>;           *)
(*   - Optional[T] is a sequence: None is <<>>, a present value v is <<v>>; *)
(*   - prices are integers (the arithmetic of the handlers is + and * only);*)
(*   - created_at / updated_at are written by the handlers and never read,  *)
(*     so the documents of the model do not carry them;                     *)
(*   - uuid.uuid4() is modelled as a value not generated before; ids of the *)
(*     two collections are never compared with each other, so each          *)
(*     collection numbers its own.                                          *)
(***************************************************************************)
EXTENDS Integers, Sequences, FiniteSets, TLC

VARIABLES
    products,   \* products_collection, in insertion (_id) order
    orders,     \* orders_collection, in insertion (_id) order
    inflight,   \* handlers suspended at an await, each with its local variables
    resp,       \* the response sent by the step that led to this state
    created,    \* history: what every 201 of create_product acknowledged so far
    walk        \* a client that pages through a listing by following page.next

vars == <<products, orders, inflight, resp, created, walk>>

(***************************************************************************)
(* Bounds of the model.  MaxOrders bounds the orders of the order-service   *)
(* specification (Spec), MaxListed those of the listing specifications.     *)
(***************************************************************************)
MaxProducts == 2
MaxOrders == 1
MaxListed == 2
MaxWalked == 3

None == <<>>
Some(v) == <<v>>

Range(s) == {s[i] : i \in 1 .. Len(s)}

Min(a, b) == IF a < b THEN a ELSE b

\* All sequences over S of length lo..hi.
SeqsOf(S, lo, hi) == UNION {[1 .. n -> S] : n \in lo .. hi}

NoResp == [op |-> "none", status |-> 0]

\* The client of `walk` before it starts.  The handlers never read or write
\* `walk`; the actions of a specification say what becomes of it.
NoWalk == [state |-> "idle"]

(***************************************************************************)
(* uuid.uuid4(): a value that is none of the ids generated so far.          *)
(***************************************************************************)
Uuid4Colliding(used) == 1

uuid4(used) == CHOOSE n \in 1 .. (Cardinality(used) + 1) :
                   n \notin used /\ \A m \in 1 .. (n - 1) : m \in used

ProductIdsOf(store) == {store[i].id : i \in 1 .. Len(store)}

\* The handlers of the given operations that are suspended at an await.  A
\* specification admits a new handler of a kind (order creation, listing) while
\* fewer than its workers of that kind are suspended.
Suspended(ops) == {h \in inflight : h.op \in ops}

OrderIdsInUse == {orders[i].id : i \in 1 .. Len(orders)}
                   \cup {h.order_doc.id : h \in Suspended({"create_order"})}

(***************************************************************************)
(* create_product: one await (insert_one); the step is the whole handler.   *)
(***************************************************************************)
product_doc(id, name, price, sizes) ==
    [id |-> id, name |-> name, price |-> price, sizes |-> sizes]

create_product(name, price, sizes) ==
    LET product_id == uuid4(ProductIdsOf(products)) IN
    /\ Len(products) < MaxProducts
    /\ products' = Append(products, product_doc(product_id, name, price, sizes))
    /\ resp' = [op |-> "create_product", status |-> 201, id |-> product_id,
                name |-> name, price |-> price]
    /\ created' = created \cup {[id |-> product_id, name |-> name, price |-> price]}
    /\ UNCHANGED <<orders, inflight>>

(***************************************************************************)
(* create_order, first step: the find() on products, then the synchronous   *)
(* code up to `await orders_collection.insert_one`.                         *)
(***************************************************************************)
product_ids(items) == [i \in 1 .. Len(items) |-> items[i].productId]

\* products_collection.find({"id": {"$in": product_ids}}).to_list(length=None)
existing_products(store, pids) ==
    SelectSeq(store, LAMBDA p : p.id \in Range(pids))

existing_ids(existing) == [i \in 1 .. Len(existing) |-> existing[i].id]

missing_ids(pids, existing) ==
    SelectSeq(pids, LAMBDA pid : pid \notin Range(existing_ids(existing)))

\* len(existing_products) != len(product_ids)
ProductsNotFound(pids, existing) == Len(existing) # Len(pids)

\* next(p for p in existing_products if p["id"] == item.productId)
FirstWithId(existing, pid) ==
    existing[CHOOSE i \in 1 .. Len(existing) :
                /\ existing[i].id = pid
                /\ \A j \in 1 .. (i - 1) : existing[j].id # pid]

RECURSIVE SumItems(_, _, _)
SumItems(items, existing, n) ==
    IF n = 0 THEN 0
    ELSE SumItems(items, existing, n - 1)
           + FirstWithId(existing, items[n].productId).price * items[n].qty

TotalFirstItemOnly(items, existing) ==
    IF Len(items) = 0 THEN 0 ELSE SumItems(items, existing, 1)

total(items, existing) == SumItems(items, existing, Len(items))

order_doc(id, userId, items, tot) ==
    [id |-> id, userId |-> userId, items |-> items, total |-> tot]

\* The generator of line 214 is exhausted, next() raises StopIteration and the
\* handler answers 500, when an item's product is not among the fetched ones.
StopIteration(pids, existing) ==
    \E i \in 1 .. Len(pids) : pids[i] \notin Range(existing_ids(existing))

CreateOrderFetchUnchecked(userId, items, workers, maxOrders) ==
    /\ Cardinality(Suspended({"create_order"})) < Cardinality(workers)
    /\ Len(orders) < maxOrders
    /\ inflight' = inflight \cup
          {[op |-> "create_order",
            order_doc |-> order_doc(uuid4(OrderIdsInUse), userId, items, 0)]}
    /\ resp' = NoResp
    /\ UNCHANGED <<products, orders, created>>

CreateOrderFetchPersistFirst(userId, items, workers, maxOrders) ==
    LET pids == product_ids(items)
        existing == existing_products(products, pids)
        doc == order_doc(uuid4(OrderIdsInUse), userId, items, 0)
    IN
    /\ Cardinality(Suspended({"create_order"})) < Cardinality(workers)
    /\ Len(orders) < maxOrders
    /\ orders' = Append(orders, doc)
    /\ resp' = IF ProductsNotFound(pids, existing) \/ StopIteration(pids, existing)
               THEN [op |-> "create_order", status |-> 400, userId |-> userId,
                     items |-> items, missing_ids |-> missing_ids(pids, existing)]
               ELSE [op |-> "create_order", status |-> 201, id |-> doc.id,
                     userId |-> userId, items |-> items]
    /\ UNCHANGED <<products, inflight, created>>

create_order_fetch(userId, items, workers, maxOrders) ==
    LET pids == product_ids(items)
        existing == existing_products(products, pids)
    IN
    /\ Cardinality(Suspended({"create_order"})) < Cardinality(workers)
    /\ Len(orders) < maxOrders
    /\ IF ProductsNotFound(pids, existing)
       THEN /\ resp' = [op |-> "create_order", status |-> 400,
                        userId |-> userId, items |-> items,
                        missing_ids |-> missing_ids(pids, existing)]
            /\ UNCHANGED <<products, orders, inflight, created>>
       ELSE IF StopIteration(pids, existing)
       THEN /\ resp' = [op |-> "create_order", status |-> 500,
                        userId |-> userId, items |-> items]
            /\ UNCHANGED <<products, orders, inflight, created>>
       ELSE /\ inflight' = inflight \cup
                  {[op |-> "create_order",
                    order_doc |-> order_doc(uuid4(OrderIdsInUse), userId, items,
                                            total(items, existing))]}
            /\ resp' = NoResp
            /\ UNCHANGED <<products, orders, created>>

(***************************************************************************)
(* create_order, second step: insert_one on orders and the return.          *)
(***************************************************************************)
create_order_insert(h, maxOrders) ==
    /\ h.op = "create_order"
    /\ Len(orders) < maxOrders
    /\ orders' = Append(orders, h.order_doc)
    /\ inflight' = inflight \ {h}
    /\ resp' = [op |-> "create_order", status |-> 201, id |-> h.order_doc.id,
                userId |-> h.order_doc.userId, items |-> h.order_doc.items]
    /\ UNCHANGED <<products, created>>

(***************************************************************************)
(* Text, and MongoDB's {"$regex": name, "$options": "i"}.  The alphabet is  *)
(* two letters in both cases and two characters special to a regular        *)
(* expression: "." matches any one character; "(" opens a group, and as the *)
(* alphabet has no ")" a pattern holding it is one MongoDB refuses.         *)
(***************************************************************************)
Lower(c) == CASE c = "A" -> "a" [] c = "B" -> "b" [] OTHER -> c

RegexValid(pattern) == \A i \in 1 .. Len(pattern) : pattern[i] # "("

\* The pattern matches the text from position i on.
RegexMatchesAt(pattern, text, i) ==
    /\ i + Len(pattern) - 1 <= Len(text)
    /\ \A j \in 1 .. Len(pattern) :
          \/ pattern[j] = "."
          \/ Lower(pattern[j]) = Lower(text[i + j - 1])

\* An unanchored, case-insensitive search.
RegexSearch(pattern, text) ==
    \E i \in 1 .. Len(text) + 1 : RegexMatchesAt(pattern, text, i)

\* str(n) of a natural number.
Digit(d) == CASE d = 0 -> "0" [] d = 1 -> "1" [] d = 2 -> "2" [] d = 3 -> "3"
              [] d = 4 -> "4" [] d = 5 -> "5" [] d = 6 -> "6" [] d = 7 -> "7"
              [] d = 8 -> "8" [] d = 9 -> "9"

RECURSIVE str(_)
str(n) == IF n < 10 THEN <<Digit(n)>> ELSE Append(str(n \div 10), Digit(n % 10))

(***************************************************************************)
(* list_products.  `if name:` and `if size:` are false for None and for "". *)
(***************************************************************************)
Truthy(opt) == opt # None /\ opt[1] # <<>>

filter_query(name, size) ==
    [name |-> IF Truthy(name) THEN name ELSE None,
     size |-> IF Truthy(size) THEN size ELSE None]

\* {"sizes.size": size}: some element of the sizes array has that size.
HasSize(product, size) ==
    \E i \in 1 .. Len(product.sizes) : product.sizes[i].size = size

MatchesNameOnly(q, product) ==
    q.name = None \/ RegexSearch(q.name[1], product.name)

Matches(q, product) ==
    /\ q.name = None \/ RegexSearch(q.name[1], product.name)
    /\ q.size = None \/ HasSize(product, q.size[1])

\* A filter MongoDB refuses makes the query raise.
QueryFails(q) == q.name # None /\ ~RegexValid(q.name[1])

count_documents(store, q) == Len(SelectSeq(store, LAMBDA p : Matches(q, p)))

SkipLimitOffByOne(rows, offset, limit) ==
    SubSeq(rows, offset + 1, Min(offset + limit + 1, Len(rows)))

\* cursor.skip(offset).limit(limit) over rows already in _id order
SkipLimit(rows, offset, limit) ==
    SubSeq(rows, offset + 1, Min(offset + limit, Len(rows)))

find_products(store, q, offset, limit) ==
    SkipLimit(SelectSeq(store, LAMBDA p : Matches(q, p)), offset, limit)

ProductListItem(product) ==
    [id |-> product.id, name |-> product.name, price |-> product.price]

NextOffsetInclusive(offset, limit, total_count) ==
    IF offset + limit <= total_count THEN Some(offset + limit) ELSE None

next_offset(offset, limit, total_count) ==
    IF offset + limit < total_count THEN Some(offset + limit) ELSE None

PreviousOffsetClamped(offset, limit) ==
    IF offset > 0 THEN Some(IF offset - limit < 0 THEN 0 ELSE offset - limit) ELSE None

previous_offset(offset, limit) ==
    IF offset > 0 THEN Some(offset - limit) ELSE None

PaginationInfo(next, limit, previous) ==
    [next |-> IF next # None THEN Some(str(next[1])) ELSE None,
     limit |-> limit,
     previous |-> previous]

\* First step: count_documents.  rows_at_count is not a variable of the
\* handler: it records how many rows the collection held when it counted.
list_products_count(name, size, limit, offset, workers) ==
    LET q == filter_query(name, size) IN
    /\ Cardinality(Suspended({"list_products", "list_orders"})) < Cardinality(workers)
    /\ IF QueryFails(q)
       THEN /\ resp' = [op |-> "list_products", status |-> 500, name |-> name,
                        size |-> size, limit |-> limit, offset |-> offset]
            /\ UNCHANGED <<products, orders, inflight, created>>
       ELSE /\ inflight' = inflight \cup
                  {[op |-> "list_products", name |-> name, size |-> size,
                    filter_query |-> q, limit |-> limit, offset |-> offset,
                    total_count |-> count_documents(products, q),
                    rows_at_count |-> Len(products)]}
            /\ resp' = NoResp
            /\ UNCHANGED <<products, orders, created>>

\* Second step: the cursor is read, the page is built, the response returned.
list_products_fetch(h) ==
    LET found == find_products(products, h.filter_query, h.offset, h.limit)
        data == [i \in 1 .. Len(found) |-> ProductListItem(found[i])]
    IN
    /\ h.op = "list_products"
    /\ inflight' = inflight \ {h}
    /\ resp' = [op |-> "list_products", status |-> 200, name |-> h.name,
                size |-> h.size, limit |-> h.limit, offset |-> h.offset,
                rows_at_count |-> h.rows_at_count,
                data |-> data,
                page |-> PaginationInfo(next_offset(h.offset, h.limit, h.total_count),
                                        Len(data),
                                        previous_offset(h.offset, h.limit))]
    /\ UNCHANGED <<products, orders, created>>

(***************************************************************************)
(* list_orders.  The enrichment awaits one find_one per item; products are  *)
(* only ever appended, so every find_one of one response is modelled in the *)
(* step that reads the cursor.                                              *)
(***************************************************************************)
OfAnyUser(store, user_id) == store

\* orders_collection.find({"userId": user_id}), in _id order
OfUser(store, user_id) == SelectSeq(store, LAMBDA o : o.userId = user_id)

\* products_collection.find_one({"id": pid})
find_one(store, pid) ==
    IF \E i \in 1 .. Len(store) : store[i].id = pid
    THEN Some(FirstWithId(store, pid))
    ELSE None

ProductDetails(product) == [name |-> product.name, id |-> product.id]

RECURSIVE order_items(_, _, _)
order_items(items, store, n) ==
    IF n = 0 THEN <<>>
    ELSE LET product == find_one(store, items[n].productId)
             before == order_items(items, store, n - 1)
         IN IF product # None
            THEN Append(before, [productDetails |-> ProductDetails(product[1]),
                                 qty |-> items[n].qty])
            ELSE before

OrderListItem(order, store) ==
    [id |-> order.id,
     items |-> order_items(order.items, store, Len(order.items)),
     total |-> order.total]

list_orders_count(user_id, limit, offset, workers) ==
    /\ Cardinality(Suspended({"list_products", "list_orders"})) < Cardinality(workers)
    /\ inflight' = inflight \cup
          {[op |-> "list_orders", user_id |-> user_id, limit |-> limit,
            offset |-> offset,
            total_count |-> Len(OfUser(orders, user_id)),
            rows_at_count |-> Len(orders)]}
    /\ resp' = NoResp
    /\ UNCHANGED <<products, orders, created>>

list_orders_fetch(h) ==
    LET found == SkipLimit(OfUser(orders, h.user_id), h.offset, h.limit)
        data == [i \in 1 .. Len(found) |-> OrderListItem(found[i], products)]
    IN
    /\ h.op = "list_orders"
    /\ inflight' = inflight \ {h}
    /\ resp' = [op |-> "list_orders", status |-> 200, user_id |-> h.user_id,
                limit |-> h.limit, offset |-> h.offset,
                rows_at_count |-> h.rows_at_count,
                data |-> data,
                page |-> PaginationInfo(next_offset(h.offset, h.limit, h.total_count),
                                        Len(data),
                                        previous_offset(h.offset, h.limit))]
    /\ UNCHANGED <<products, orders, created>>

Init ==
    /\ products = <<>>
    /\ orders = <<>>
    /\ inflight = {}
    /\ resp = NoResp
    /\ created = {}
    /\ walk = NoWalk

(***************************************************************************)
(* Spec, the order service: concurrent create_product and create_order      *)
(* requests.  Products vary in price; orders in their items and quantities. *)
(***************************************************************************)
Workers == {"w1", "w2"}
Prices == {5, 10}
Qtys == {1, 2}
\* Product ids a client may send: each is unknown to the store until the
\* product that gets it is created.
RequestIds == {1, 2}
OrderNames == {<<"A", "b">>}
OrderSizes == {<<>>}
OrderUsers == {"u1"}
Items == [productId : RequestIds, qty : Qtys]
ItemLists == SeqsOf(Items, 0, 2)

CreateProduct ==
    \E name \in OrderNames, price \in Prices, sizes \in OrderSizes :
        create_product(name, price, sizes) /\ UNCHANGED walk

CreateOrderFetch ==
    \E userId \in OrderUsers, items \in ItemLists :
        create_order_fetch(userId, items, Workers, MaxOrders) /\ UNCHANGED walk

CreateOrderInsert == \E h \in inflight : create_order_insert(h, MaxOrders) /\ UNCHANGED walk

Next ==
    \/ CreateProduct
    \/ CreateOrderFetch
    \/ CreateOrderInsert

Spec == Init /\ [][Next]_vars

(***************************************************************************)
(* SpecCatalog, the product catalogue: create_product and list_products     *)
(* with its filters.  Products vary in name and sizes.                      *)
(***************************************************************************)
CatalogWorkers == {"w1"}
CatalogNames == {<<"b", "A">>, <<"b">>}
CatalogPrices == {5}
Size(size) == [size |-> size, quantity |-> 1]
CatalogSizes == {<<Size(<<"S">>)>>, <<Size(<<"M">>), Size(<<"s">>)>>}
NameFilters == {None, Some(<<"a">>), Some(<<".">>), Some(<<"(">>)}
SizeFilters == {None, Some(<<>>), Some(<<"S">>), Some(<<"s">>)}
Limits == {1, 2}
Offsets == {0, 1, 2}

CatalogCreateProduct ==
    \E name \in CatalogNames, price \in CatalogPrices, sizes \in CatalogSizes :
        create_product(name, price, sizes) /\ UNCHANGED walk

CatalogListCount ==
    \E name \in NameFilters, size \in SizeFilters, limit \in Limits, offset \in Offsets :
        list_products_count(name, size, limit, offset, CatalogWorkers) /\ UNCHANGED walk

CatalogListFetch == \E h \in inflight : list_products_fetch(h) /\ UNCHANGED walk

NextCatalog ==
    \/ CatalogCreateProduct
    \/ CatalogListCount
    \/ CatalogListFetch

SpecCatalog == Init /\ [][NextCatalog]_vars

(***************************************************************************)
(* SpecListing, the two paginated listings over both collections: products  *)
(* vary in name, orders in user and items.                                  *)
(***************************************************************************)
ListingWorkers == {"w1"}
ListingNames == {<<"A", "b">>, <<"b">>}
ListingPrices == {5}
ListingUsers == {"u1", "u2"}
ListingItemLists == {<<[productId |-> 1, qty |-> 1]>>,
                     <<[productId |-> 2, qty |-> 2], [productId |-> 1, qty |-> 1]>>}

ListingCreateProduct ==
    \E name \in ListingNames, price \in ListingPrices : create_product(name, price, <<>>) /\ UNCHANGED walk

ListingCreateOrderFetch ==
    \E userId \in ListingUsers, items \in ListingItemLists :
        create_order_fetch(userId, items, ListingWorkers, MaxListed) /\ UNCHANGED walk

ListingCreateOrderInsert == \E h \in inflight : create_order_insert(h, MaxListed) /\ UNCHANGED walk

ListingProductsCount ==
    \E limit \in Limits, offset \in Offsets :
        list_products_count(None, None, limit, offset, ListingWorkers) /\ UNCHANGED walk

ListingProductsFetch == \E h \in inflight : list_products_fetch(h) /\ UNCHANGED walk

ListingOrdersCount ==
    \E user_id \in ListingUsers, limit \in Limits, offset \in Offsets :
        list_orders_count(user_id, limit, offset, ListingWorkers) /\ UNCHANGED walk

ListingOrdersFetch == \E h \in inflight : list_orders_fetch(h) /\ UNCHANGED walk

NextListing ==
    \/ ListingCreateProduct
    \/ ListingCreateOrderFetch
    \/ ListingCreateOrderInsert
    \/ ListingProductsCount
    \/ ListingProductsFetch
    \/ ListingOrdersCount
    \/ ListingOrdersFetch

SpecListing == Init /\ [][NextListing]_vars

(***************************************************************************)
(* Properties of create_order, checked under Spec.                          *)
(***************************************************************************)
RequestedIds(items) == {items[i].productId : i \in 1 .. Len(items)}

\* The requested ids that are not the id of a stored product.
AbsentIds(items) == RequestedIds(items) \ ProductIdsOf(products)

\* C1: a create_order request with at least one productId absent from the
\* store is answered 400, the reported list holds exactly the absent requested
\* ids, each of them once, and the step persists no order.
C1_MissingIdsReportedOnce ==
    [][\A userId \in OrderUsers, items \in ItemLists :
          (/\ create_order_fetch(userId, items, Workers, MaxOrders)
           /\ AbsentIds(items) # {})
          => /\ resp'.op = "create_order"
             /\ resp'.status = 400
             /\ Range(resp'.missing_ids) = AbsentIds(items)
             /\ Len(resp'.missing_ids) = Cardinality(AbsentIds(items))
             /\ orders' = orders
             /\ inflight' = inflight]_vars

\* C2: create_order answers 400 exactly when fewer products were fetched than
\* the items reference DISTINCT product ids; a request whose items all reference
\* stored products is accepted, a repeated productId included.
C2_RejectedIffFewerThanDistinct ==
    (resp.op = "create_order" /\ resp.status \in {400, 201})
    => LET pids == product_ids(resp.items)
           fetched == Len(existing_products(products, pids))
       IN resp.status = 400 <=> fetched < Cardinality(RequestedIds(resp.items))

\* The price of the stored product with the given id.
PriceOf(pid) == (CHOOSE p \in Range(products) : p.id = pid).price

RECURSIVE ItemsValue(_)
ItemsValue(items) ==
    IF items = <<>> THEN 0
    ELSE PriceOf(Head(items).productId) * Head(items).qty + ItemsValue(Tail(items))

\* C3: the total of every stored order is the sum, over the items of the order,
\* of the referenced product's price times the item's qty.
C3_TotalIsSumOfPriceTimesQty ==
    \A i \in 1 .. Len(orders) : orders[i].total = ItemsValue(orders[i].items)

\* C3 witness: a stored order of two items, (price 10, qty 2) and (price 5,
\* qty 1), whose total is 25.
C3_Witness ==
    \E i \in 1 .. Len(orders) :
        LET o == orders[i] IN
        /\ Len(o.items) = 2
        /\ o.items[1].qty = 2 /\ PriceOf(o.items[1].productId) = 10
        /\ o.items[2].qty = 1 /\ PriceOf(o.items[2].productId) = 5
        /\ o.total = 25

\* C4: every stored order references only ids of stored products, whatever
\* the interleaving of create_product with the two steps of create_order.
C4_OrdersReferenceStoredProducts ==
    \A i \in 1 .. Len(orders) : RequestedIds(orders[i].items) \subseteq ProductIdsOf(products)

\* C4 witness: an order was inserted while another create_order was suspended
\* between its find and its insert, and a product was created after the
\* stored order's products were fetched.
C4_Witness ==
    /\ Len(orders) = 1
    /\ Len(orders[1].items) = 1
    /\ orders[1].items[1].productId = 1
    /\ Len(products) = 2
    /\ Suspended({"create_order"}) # {}
    /\ resp.op = "create_order" /\ resp.status = 201

(***************************************************************************)
(* Properties of the paginated listings, checked under SpecListing.         *)
(***************************************************************************)
ListOk == resp.op \in {"list_products", "list_orders"} /\ resp.status = 200

\* The rows matching the filter of the answered request among the first n rows
\* of its collection.
MatchingRows(n) ==
    IF resp.op = "list_products"
    THEN SelectSeq(SubSeq(products, 1, n),
                   LAMBDA p : Matches(filter_query(resp.name, resp.size), p))
    ELSE SelectSeq(SubSeq(orders, 1, n), LAMBDA o : o.userId = resp.user_id)

\* The number read back from its decimal text.
DigitValue(c) == CHOOSE d \in 0 .. 9 : Digit(d) = c

RECURSIVE ParseInt(_)
ParseInt(text) ==
    IF Len(text) = 1 THEN DigitValue(text[1])
    ELSE 10 * ParseInt(SubSeq(text, 1, Len(text) - 1)) + DigitValue(text[Len(text)])

\* C5: in every list response page.limit is the number of entries of data, and
\* data has at most as many entries as the requested limit.
C5_PageLimitIsDataLength ==
    ListOk => /\ resp.page.limit = Len(resp.data)
              /\ Len(resp.data) <= resp.limit

\* C5 witness: a list_orders response whose page.limit is not the requested limit.
C5_Witness ==
    /\ ListOk
    /\ resp.op = "list_orders"
    /\ resp.limit = 2
    /\ Len(resp.data) = 1
    /\ resp.page.limit = 1

\* C6: page.next is present exactly when offset + requested limit is less than
\* the number of rows that matched the filter when the handler counted them,
\* and then it is the text of offset + requested limit.
C6_NextIffMoreRows ==
    ListOk => LET matching == Len(MatchingRows(resp.rows_at_count)) IN
              /\ resp.page.next # None <=> resp.offset + resp.limit < matching
              /\ resp.page.next # None
                    => ParseInt(resp.page.next[1]) = resp.offset + resp.limit

\* C6 witness: a response with page.next present.
C6_Witness ==
    /\ ListOk
    /\ resp.op = "list_orders"
    /\ resp.offset = 0 /\ resp.limit = 1
    /\ resp.page.next = Some(<<"1">>)

\* C7: page.previous is absent when offset = 0 and is offset - requested limit,
\* unclamped, when offset > 0.
C7_PreviousUnclamped ==
    ListOk => /\ resp.offset = 0 => resp.page.previous = None
              /\ resp.offset > 0 => resp.page.previous = Some(resp.offset - resp.limit)

\* C7 witness: a negative page.previous.
C7_Witness ==
    /\ ListOk
    /\ resp.offset = 1 /\ resp.limit = 2
    /\ resp.page.previous = Some(-1)

\* The entry list_orders is to return for a stored order: one item per stored
\* item whose product is stored, in stored order.
StoredProduct(pid) == CHOOSE p \in Range(products) : p.id = pid

ExpectedItems(order) ==
    LET kept == SelectSeq(order.items, LAMBDA it : it.productId \in ProductIdsOf(products))
    IN [i \in 1 .. Len(kept) |->
           [productDetails |-> [name |-> StoredProduct(kept[i].productId).name,
                                id |-> kept[i].productId],
            qty |-> kept[i].qty]]

\* C10: list_orders answers 200 with entries that are each a stored order of
\* the given user, carrying the stored total and one item per stored item whose
\* product is stored; a user without orders gets data = [] and page.limit = 0.
C10_ListOrdersEntries ==
    resp.op = "list_orders"
    => /\ resp.status = 200
       /\ \A i \in 1 .. Len(resp.data) :
             \E j \in 1 .. Len(orders) :
                 /\ orders[j].id = resp.data[i].id
                 /\ orders[j].userId = resp.user_id
                 /\ resp.data[i].total = orders[j].total
                 /\ resp.data[i].items = ExpectedItems(orders[j])
       /\ (\A j \in 1 .. Len(orders) : orders[j].userId # resp.user_id)
             => resp.data = <<>> /\ resp.page.limit = 0

\* C10 witness: a response holding a two-item order of the user while an order
\* of another user is stored.
C10_Witness ==
    /\ resp.op = "list_orders"
    /\ Len(resp.data) = 1
    /\ Len(resp.data[1].items) = 2
    /\ resp.data[1].total = 15
    /\ \E j \in 1 .. Len(orders) : orders[j].userId # resp.user_id

(***************************************************************************)
(* Properties of the product catalogue, checked under SpecCatalog.          *)
(***************************************************************************)
\* text occurs in name as a substring, letter case ignored.
ContainsIgnoringCase(name, text) ==
    \E i \in 0 .. (Len(name) - Len(text)) :
        \A j \in 1 .. Len(text) : Lower(name[i + j]) = Lower(text[j])

\* The page of the products that satisfy `keeps`: insertion order, the first
\* `offset` skipped, at most `limit` taken, each as {id, name, price}.
PageOf(keeps(_), offset, limit) ==
    LET rows == SelectSeq(products, keeps)
        last == IF offset + limit < Len(rows) THEN offset + limit ELSE Len(rows)
    IN [i \in 1 .. (IF last > offset THEN last - offset ELSE 0) |->
           [id |-> rows[offset + i].id,
            name |-> rows[offset + i].name,
            price |-> rows[offset + i].price]]

PlainText(text) == \A i \in 1 .. Len(text) : text[i] \notin {".", "("}

RECURSIVE WalkFrom(_, _)
WalkFrom(limit, offset) ==
    LET q == filter_query(None, None)
        found == find_products(products, q, offset, limit)
        next == PaginationInfo(next_offset(offset, limit, count_documents(products, q)),
                               Len(found), previous_offset(offset, limit)).next
    IN [i \in 1 .. Len(found) |-> ProductListItem(found[i])]
         \o (IF next = None THEN <<>> ELSE WalkFrom(limit, ParseInt(next[1])))

\* C9: the id a create_product returns is the id of no product stored before,
\* and in every later state the walk returns an entry with that id, the name
\* and the price of the request.
C9_CreatedIdFreshAndListed ==
    /\ resp.op = "create_product"
          => resp.id \notin ProductIdsOf(SubSeq(products, 1, Len(products) - 1))
    /\ \A c \in created, limit \in Limits : c \in Range(WalkFrom(limit, 0))

\* C9 witness: a second product was created, listed on the second page of a
\* walk of limit 1.
C9_Witness ==
    /\ resp.op = "create_product"
    /\ resp.id = 2
    /\ Cardinality(created) = 2
    /\ WalkFrom(1, 0)[2].id = 2

(***************************************************************************)
(* Storage failures.  A database call that raises is caught by the          *)
(* handler's `except Exception` and answered 500; the call that raised has  *)
(* written nothing.                                                         *)
(***************************************************************************)
\* create_product: insert_one raises.
create_product_error(name, price) ==
    /\ resp' = [op |-> "create_product", status |-> 500, name |-> name, price |-> price]
    /\ UNCHANGED <<products, orders, inflight, created>>

\* create_order: the find on products raises.
create_order_find_error(userId, items) ==
    /\ resp' = [op |-> "create_order", status |-> 500, userId |-> userId, items |-> items]
    /\ UNCHANGED <<products, orders, inflight, created>>

\* create_order: insert_one raises.
create_order_insert_error(h) ==
    /\ h.op = "create_order"
    /\ inflight' = inflight \ {h}
    /\ resp' = [op |-> "create_order", status |-> 500,
                userId |-> h.order_doc.userId, items |-> h.order_doc.items]
    /\ UNCHANGED <<products, orders, created>>

\* list_products / list_orders: count_documents raises.
list_count_error(op, limit, offset) ==
    /\ resp' = [op |-> op, status |-> 500, limit |-> limit, offset |-> offset]
    /\ UNCHANGED <<products, orders, inflight, created>>

\* list_products / list_orders: reading the cursor (or a find_one) raises.
list_fetch_error(h) ==
    /\ h.op \in {"list_products", "list_orders"}
    /\ inflight' = inflight \ {h}
    /\ resp' = [op |-> h.op, status |-> 500, limit |-> h.limit, offset |-> h.offset]
    /\ UNCHANGED <<products, orders, created>>

(***************************************************************************)
(* SpecFrame: the four handlers, each of whose database calls may also      *)
(* raise.                                                                   *)
(***************************************************************************)
FrameNames == {<<"b">>}
FramePrices == {5}
FrameUsers == {"u1"}
FrameItemLists == ListingItemLists
FrameLimits == {1}
FrameOffsets == {0}

FrameCreateProduct ==
    \E name \in FrameNames, price \in FramePrices : create_product(name, price, <<>>) /\ UNCHANGED walk

FrameCreateProductError ==
    \E name \in FrameNames, price \in FramePrices : create_product_error(name, price) /\ UNCHANGED walk

FrameCreateOrderFetch ==
    \E userId \in FrameUsers, items \in FrameItemLists :
        create_order_fetch(userId, items, ListingWorkers, MaxListed) /\ UNCHANGED walk

FrameCreateOrderFindError ==
    \E userId \in FrameUsers, items \in FrameItemLists :
        create_order_find_error(userId, items) /\ UNCHANGED walk

FrameCreateOrderInsert == \E h \in inflight : create_order_insert(h, MaxListed) /\ UNCHANGED walk

FrameCreateOrderInsertError == \E h \in inflight : create_order_insert_error(h) /\ UNCHANGED walk

FrameProductsCount ==
    \E limit \in FrameLimits, offset \in FrameOffsets :
        list_products_count(None, None, limit, offset, ListingWorkers) /\ UNCHANGED walk

FrameProductsFetch == \E h \in inflight : list_products_fetch(h) /\ UNCHANGED walk

FrameOrdersCount ==
    \E user_id \in FrameUsers, limit \in FrameLimits, offset \in FrameOffsets :
        list_orders_count(user_id, limit, offset, ListingWorkers) /\ UNCHANGED walk

FrameOrdersFetch == \E h \in inflight : list_orders_fetch(h) /\ UNCHANGED walk

FrameListCountError ==
    \E op \in {"list_products", "list_orders"}, limit \in FrameLimits,
       offset \in FrameOffsets :
        list_count_error(op, limit, offset) /\ UNCHANGED walk

FrameListFetchError == \E h \in inflight : list_fetch_error(h) /\ UNCHANGED walk

NextFrame ==
    \/ FrameCreateProduct
    \/ FrameCreateProductError
    \/ FrameCreateOrderFetch
    \/ FrameCreateOrderFindError
    \/ FrameCreateOrderInsert
    \/ FrameCreateOrderInsertError
    \/ FrameProductsCount
    \/ FrameProductsFetch
    \/ FrameOrdersCount
    \/ FrameOrdersFetch
    \/ FrameListCountError
    \/ FrameListFetchError

SpecFrame == Init /\ [][NextFrame]_vars

(***************************************************************************)
(* Frame property of every request, checked under SpecFrame.                *)
(***************************************************************************)
\* The collection after a step still begins with the collection before it.
Extends(after, before) ==
    /\ Len(before) <= Len(after)
    /\ SubSeq(after, 1, Len(before)) = before

\* C11: every step keeps the stored products and orders as they are; a step
\* that does not answer 201 (a 400 or 500 of any handler, any step of a
\* listing, a step that answers nothing yet) changes neither collection; a 201
\* of create_product adds that one product and a 201 of create_order that one
\* order, and nothing else.
C11_AllOrNothing ==
    [][/\ Extends(products', products)
       /\ Extends(orders', orders)
       /\ resp'.status # 201 => products' = products /\ orders' = orders
       /\ (resp'.op = "create_product" /\ resp'.status = 201)
             => /\ orders' = orders
                /\ Len(products') = Len(products) + 1
                /\ products'[Len(products')].id = resp'.id
                /\ products'[Len(products')].name = resp'.name
                /\ products'[Len(products')].price = resp'.price
       /\ (resp'.op = "create_order" /\ resp'.status = 201)
             => /\ products' = products
                /\ Len(orders') = Len(orders) + 1
                /\ orders'[Len(orders')].id = resp'.id
                /\ orders'[Len(orders')].userId = resp'.userId
                /\ orders'[Len(orders')].items = resp'.items]_vars

\* C11 witness: a create_order ended in a storage error with products and an
\* order stored.
C11_Witness ==
    /\ resp.op = "create_order" /\ resp.status = 500
    /\ Len(products) = 2
    /\ Len(orders) = 1
    /\ Len(resp.items) = 2

(***************************************************************************)
(* SpecWalk: a client pages through list_products, or through list_orders   *)
(* of one user, while other clients create products and orders.  It asks    *)
(* for offset 0, then for the offset of every page.next, and stops at the   *)
(* page that has none.  Its requests are the only listings in flight, so    *)
(* every listing response is the answer to its last request.                *)
(***************************************************************************)
WalkNames == {<<"b">>}
WalkPrices == {5}
WalkUsers == {"u1", "u2"}
WalkItemLists == {<<[productId |-> 1, qty |-> 1]>>}
WalkListings == {"list_products", "list_orders"}

IdsOf(rows) == [i \in 1 .. Len(rows) |-> rows[i].id]

\* The rows the walk is about, as stored now.
WalkRows(op, user_id) ==
    IF op = "list_products"
    THEN SelectSeq(products, LAMBDA p : Matches(filter_query(None, None), p))
    ELSE OfUser(orders, user_id)

\* The client decides to walk; `began` keeps the ids of the matching rows stored
\* at that moment, `got` the ids of the entries received so far, and `raced`
\* whether a matching row was inserted between the count and the fetch of one
\* of its requests.
WalkBegin ==
    /\ walk.state = "idle"
    /\ \E op \in WalkListings, user_id \in WalkUsers, limit \in Limits :
          walk' = [state |-> "ready", op |-> op, user_id |-> user_id,
                   limit |-> limit, offset |-> 0, got |-> <<>>,
                   began |-> IdsOf(WalkRows(op, user_id)), raced |-> FALSE]
    /\ resp' = NoResp
    /\ UNCHANGED <<products, orders, inflight, created>>

\* The request for the next page reaches its count_documents.
WalkCount ==
    /\ walk.state = "ready"
    /\ IF walk.op = "list_products"
       THEN list_products_count(None, None, walk.limit, walk.offset, ListingWorkers)
       ELSE list_orders_count(walk.user_id, walk.limit, walk.offset, ListingWorkers)
    /\ walk' = [walk EXCEPT !.state = "waiting"]

\* A matching row was inserted after the count of the request answered by r.
RacedWithInsert(r) ==
    IF r.op = "list_products"
    THEN r.rows_at_count < Len(products)
    ELSE Len(OfUser(SubSeq(orders, 1, r.rows_at_count), r.user_id))
         < Len(OfUser(orders, r.user_id))

\* The page is fetched and answered; the client takes its entries and follows
\* page.next, which it reads back from text.
WalkFetch ==
    /\ walk.state = "waiting"
    /\ \E h \in inflight : list_products_fetch(h) \/ list_orders_fetch(h)
    /\ walk' = [walk EXCEPT
                  !.got = walk.got \o IdsOf(resp'.data),
                  !.raced = walk.raced \/ RacedWithInsert(resp'),
                  !.state = IF resp'.page.next = None THEN "done" ELSE "ready",
                  !.offset = IF resp'.page.next = None THEN walk.offset
                             ELSE ParseInt(resp'.page.next[1])]

WalkCreateProduct ==
    \E name \in WalkNames, price \in WalkPrices :
        create_product(name, price, <<>>) /\ UNCHANGED walk

WalkCreateOrderFetch ==
    \E userId \in WalkUsers, items \in WalkItemLists :
        create_order_fetch(userId, items, ListingWorkers, MaxWalked) /\ UNCHANGED walk

WalkCreateOrderInsert ==
    \E h \in inflight : create_order_insert(h, MaxWalked) /\ UNCHANGED walk

NextWalk ==
    \/ WalkBegin
    \/ WalkCount
    \/ WalkFetch
    \/ WalkCreateProduct
    \/ WalkCreateOrderFetch
    \/ WalkCreateOrderInsert

SpecWalk == Init /\ [][NextWalk]_vars

(***************************************************************************)
(* Property of a walk, checked under SpecWalk.                              *)
(***************************************************************************)
\* C12: when the walk ends, the entries received that were matching rows when
\* it began are all of those rows, each once, in insertion order.
C12_WalkReceivesEveryRowOnce ==
    walk.state = "done"
    => SelectSeq(walk.got, LAMBDA id : id \in Range(walk.began)) = walk.began

\* C12 witness: a walk of list_orders with limit 1 has ended after more than
\* one page; one order of the user was stored when it began, others were
\* inserted during the walk, one of them between the count and the fetch of a
\* request.
C12_Witness ==
    /\ walk.state = "done"
    /\ walk.op = "list_orders"
    /\ walk.limit = 1
    /\ Len(walk.began) = 1
    /\ Len(walk.got) >= 2
    /\ walk.raced
    /\ Len(OfUser(orders, walk.user_id)) = 3

====
